---- MODULE Spec2Model ----
(***************************************************************************)
(* Model of the analytical core of scphylo:                                *)
(*   scphylo/ul/_utils.py      is_conflict_free, is_conflict_free_gusfield *)
(*   scphylo/tl/score/_ours.py gs, ad, dl, cc, mltd, tpted                 *)
(* The functions are pure; every specification draws the caller's inputs   *)
(* in Init and has one action per call.                                    *)
(***************************************************************************)
EXTENDS Integers, Sequences, FiniteSets, TLC

VARIABLES
    df_in,      \* the DataFrame handed to is_conflict_free_gusfield
    tree,       \* the mutation tree df_in was read off, when there is one
    df_grnd,    \* the ground-truth DataFrame handed to a score
    df_sol,     \* the candidate DataFrame handed to a score
    arg_grnd,   \* df_grnd as it was when the score was called
    arg_sol,    \* df_sol as it was when the score was called
    pc,         \* "ready": the caller holds its inputs; "done": a call ended
    fn,         \* the function called last
    ret,        \* how that call ended
    ret0,       \* how the first call on this input ended
    permuted,   \* whether the caller has permuted its matrix since Init
    env,        \* what the call left outside its return value: the temporary
                \* directory, the runs of the tool, the edit distance computed
    fout        \* the lines the serializer of mltd wrote

vars == <<df_in, tree, df_grnd, df_sol, arg_grnd, arg_sol, pc, fn, ret, ret0,
          permuted, env, fout>>

\* ------------------------------------------------------------------ bounds

\* Largest number of entries (rows times columns) of a 0/1 matrix handed to
\* the conflict-free check.
MaxEntries == 11

\* Largest number of entries of a matrix that may hold values other than
\* 0 and 1.
MaxRawEntries == 4

\* Largest number of entries of each of two matrices over the same cells and
\* mutations handed to a score.
MaxScoreEntries == 6

\* Two matrices over differing cells and mutations: the largest label, and
\* the largest number of entries of each matrix, where permutations are
\* tried (MaxPerm...) and where the labels are what matters.
MaxPermLabel == 2
MaxPermEntries == 4
MaxLabel == 3
MaxLabelEntries == 2

\* Largest edit distance the edit-distance collaborator answers.
MaxEd == 5
MaxOnes == 3
MaxTptedEntries == 4
MaxBothEntries == 9

\* Mutation trees: most nodes below the root, most mutations, most cells.
MaxNodes == 3
MaxTreeMuts == 3
MaxTreeCells == 3

\* ------------------------------------------------------------- helpers

Range(s) == {s[k] : k \in DOMAIN s}

Max(S) == CHOOSE x \in S : \A y \in S : y <= x

\* A number as pandas holds it: its integer part and whether a fractional
\* part follows (0.5 is Num(0, TRUE), 3 is Num(3, FALSE)).
Num(i, f) == [int |-> i, frac |-> f]

Zero == Num(0, FALSE)
One == Num(1, FALSE)
\* The missing-data value of the toolkit (np.sum(df_in.values == 3) counts NA).
NA == Num(3, FALSE)
Half == Num(0, TRUE)

\* A DataFrame: row labels, column labels, and the values row by row.
DataFrame(index, columns, values) ==
    [index |-> index, columns |-> columns, values |-> values]

Iota(n) == [k \in 1..n |-> k]

\* The values of the n x m matrices over the value set V, row by row.
Values(n, m, V) == [1..n -> [1..m -> V]]

\* ------------------------------------------- is_conflict_free_gusfield

\* df_in.astype(int).values: every entry truncated to its integer part.
astype_int(df) ==
    [i \in 1..Len(df.index) |->
        [j \in 1..Len(df.columns) |-> df.values[i][j].int]]

\* np.unique(I_mtr), as the set of the values that occur.
np_unique(M) == UNION {Range(M[i]) : i \in DOMAIN M}

\* Column j of matrix a, top row first: row j of np.transpose(a).
Column(a, j) == [i \in DOMAIN a |-> a[i][j]]

\* The order np.argsort puts on the void view of a column: the bytes of its
\* entries compared left to right, which for entries 0 and 1 is the order
\* of the entries compared top row first.
VoidLess(x, y) ==
    \E k \in DOMAIN x :
        /\ x[k] < y[k]
        /\ \A l \in 1..(k - 1) : x[l] = y[l]

\* The place of column j once the columns are in descending order
\* (np.argsort(...)[::-1]).  Equal columns are interchangeable: the matrix
\* c = b[idx] is the same whichever of them argsort puts first.
SortPlace(a, m, j) ==
    1 + Cardinality({k \in 1..m : VoidLess(Column(a, j), Column(a, k))})
      + Cardinality({k \in 1..(j - 1) : Column(a, k) = Column(a, j)})

\* _sort_bin that leaves the columns in the order they came in.
sort_bin_unsorted(a, m) == a

\* _sort_bin(a): the matrix a with its columns sorted in descending order;
\* the index array idx is dropped by the caller.
sort_bin(a, m) ==
    LET idx == [p \in 1..m |-> CHOOSE j \in 1..m : SortPlace(a, m, j) = p]
    IN  [i \in DOMAIN a |-> [p \in 1..m |-> a[i][idx[p]]]]

\* LijRow with maxK = j in place of maxK = j + 1 (an index one too small).
RECURSIVE LijRowOffByOne(_, _, _, _)
LijRowOffByOne(row, j, maxK, acc) ==
    IF j > Len(row) THEN acc
    ELSE IF row[j] = 1
         THEN LijRowOffByOne(row, j + 1, j - 1, Append(acc, maxK))
         ELSE LijRowOffByOne(row, j + 1, maxK, Append(acc, 0))

\* The inner loop over j for one row: Lij[i, j] = maxK at every 1, and maxK
\* becomes the (1-based) index of that column.
RECURSIVE LijRow(_, _, _, _)
LijRow(row, j, maxK, acc) ==
    IF j > Len(row) THEN acc
    ELSE IF row[j] = 1
         THEN LijRow(row, j + 1, j, Append(acc, maxK))
         ELSE LijRow(row, j + 1, maxK, Append(acc, 0))

\* Lij = np.zeros(O_mtr.shape), filled row by row.
LijOf(O) == [i \in DOMAIN O |-> LijRow(O[i], 1, 0, <<>>)]

\* Lj = np.amax(Lij, axis=0)
LjOf(Lij, m) == [j \in 1..m |-> Max({Lij[i][j] : i \in DOMAIN Lij})]

\* The value is_conflict_free_gusfield returns.
is_conflict_free_gusfield(df) ==
    LET I_mtr == astype_int(df)
        m == Len(df.columns)
    IN  IF np_unique(I_mtr) # {0, 1} THEN FALSE
        ELSE LET O_mtr == sort_bin(I_mtr, m)
                 Lij == LijOf(O_mtr)
                 Lj == LjOf(Lij, m)
             IN  \A i \in DOMAIN O_mtr : \A j \in 1..m :
                     O_mtr[i][j] = 1 => Lij[i][j] = Lj[j]

\* ------------------------------------------------------ is_conflict_free

\* The flags the loop over r raises for the columns p and q of D.
oneone(D, p, q) == \E r \in DOMAIN D : D[r][p] = 1 /\ D[r][q] = 1
zeroone(D, p, q) == \E r \in DOMAIN D : D[r][p] = 0 /\ D[r][q] = 1
onezero(D, p, q) == \E r \in DOMAIN D : D[r][p] = 1 /\ D[r][q] = 0

\* with the test of np.unique(D) left out
is_conflict_free_unchecked(df) ==
    LET D == astype_int(df)
        m == Len(df.columns)
    IN  ~ \E p \in 1..m : \E q \in (p + 1)..m :
              oneone(D, p, q) /\ zeroone(D, p, q) /\ onezero(D, p, q)

is_conflict_free(df) ==
    LET D == astype_int(df)
        m == Len(df.columns)
    IN  IF np_unique(D) # {0, 1} THEN FALSE
        ELSE ~ \E p \in 1..m : \E q \in (p + 1)..m :
                   oneone(D, p, q) /\ zeroone(D, p, q) /\ onezero(D, p, q)

\* ------------------------------------------------------------ outcomes

NoCall == [kind |-> "none"]
Return(v) == [kind |-> "return", value |-> v]

\* An exception Python raises in the function.
Raise(exc) == [kind |-> "raise", exc |-> exc]

\* scp.logg.error(msg): aborts the computation with the message.
logg_error(msg) == [kind |-> "abort", msg |-> msg]

\* Python's None.
None == [py |-> "None"]

\* ---------------------------------------------------------------- numbers

RECURSIVE GCD(_, _)
GCD(a, b) == IF b = 0 THEN a ELSE GCD(b, a % b)

\* The float a / b (b > 0, a >= 0), kept as the fraction in lowest terms:
\* two divisions give the same float when they divide to the same fraction.
Frac(a, b) == LET g == GCD(a, b) IN [num |-> a \div g, den |-> b \div g]

\* numpy's 0 / 0.
NaN == [num |-> 0, den |-> 0]

\* 1 - a / b, for 0 <= a and 0 < b (negative when a > b).
OneMinus(a, b) ==
    LET g == GCD(b, IF b < a THEN a - b ELSE b - a)
    IN  [num |-> (b - a) \div g, den |-> b \div g]

RECURSIVE SumSeq(_)
SumSeq(s) == IF s = <<>> THEN 0 ELSE Head(s) + SumSeq(Tail(s))

Min(S) == CHOOSE x \in S : \A y \in S : x <= y

\* The elements of a set of labels in ascending order.
RECURSIVE Sorted(_)
Sorted(S) == IF S = {} THEN <<>> ELSE <<Min(S)>> \o Sorted(S \ {Min(S)})

\* ------------------------------------------------------------- DataFrames

\* A label is a number standing for an identifier; the numbers are ordered
\* as the identifiers are.  Label 3k+1 is a name without ':' or '=', label
\* 3k+2 a name with a ':' in it and label 3k+3 the same name with '_' in
\* place of the ':' ("m0a" < "m0b:" < "m0b_" < "m1a" < ...).

\* np.intersect1d(a, b): the common labels, sorted, each once.
intersect1d(a, b) == Sorted(Range(a) \cap Range(b))

\* np.union1d(a, b) and np.setdiff1d(a, b)
union1d(a, b) == Sorted(Range(a) \cup Range(b))
setdiff1d(a, b) == Sorted(Range(a) \ Range(b))

\* the first positions of the axis, whatever labels they carry
LocateByPosition(axis, labels) == [k \in 1..Len(labels) |-> k]

\* The positions, in order, at which the labels of `labels` stand in `axis`:
\* for each label in turn, every position that carries it.
RECURSIVE Locate(_, _)
Locate(axis, labels) ==
    IF labels = <<>> THEN <<>>
    ELSE LET here == {k \in DOMAIN axis : axis[k] = Head(labels)}
         IN  Sorted(here) \o Locate(axis, Tail(labels))

\* df.loc[rows, cols]: the frame of those rows and columns, chosen by label.
loc(df, rows, cols) ==
    LET rp == Locate(df.index, rows)
        cp == Locate(df.columns, cols)
    IN  DataFrame([r \in DOMAIN rp |-> df.index[rp[r]]],
                  [c \in DOMAIN cp |-> df.columns[cp[c]]],
                  [r \in DOMAIN rp |->
                      [c \in DOMAIN cp |-> df.values[rp[r]][cp[c]]]])

\* df[cols]: every row, the columns chosen by label.
getitem(df, cols) == loc(df, df.index, cols)

\* df.values of a frame whose entries are integers.
values(df) ==
    [i \in DOMAIN df.values |->
        [j \in DOMAIN df.values[i] |-> df.values[i][j].int]]

\* np.sum(M[:, j]) and np.sum(M[:, i] * M[:, j])
ColSum(M, j) == SumSeq([r \in DOMAIN M |-> M[r][j]])
Cap(M, i, j) == SumSeq([r \in DOMAIN M |-> M[r][i] * M[r][j]])

Abs(x) == IF x < 0 THEN -x ELSE x

\* --------------------------------------------------------------------- gs

\* np.abs(M_grnd - M_sol).sum() over a matrix of m columns
AbsDiffSum(M_grnd, M_sol, m) ==
    SumSeq([r \in DOMAIN M_grnd |->
               SumSeq([c \in 1..m |-> Abs(M_grnd[r][c] - M_sol[r][c])])])

\* d / size in place of 1 - d / size: the distance, not the similarity
gs_value_distance(d, size) == IF size = 0 THEN NaN ELSE Frac(d, size)

\* 1 - d / size, numpy's division: 0 / 0 is nan.
gs_value(d, size) == IF size = 0 THEN NaN ELSE OneMinus(d, size)

gs(grnd, sol) ==
    LET muts == intersect1d(grnd.columns, sol.columns)
        cells == intersect1d(grnd.index, sol.index)
    IN  IF Len(muts) = 0
        THEN logg_error("No common mutations found between two trees!")
        ELSE IF Len(cells) = 0
        THEN logg_error("No common cells found between two trees!")
        ELSE LET M_grnd == values(loc(grnd, cells, muts))
                 M_sol == values(loc(sol, cells, muts))
                 size == Len(cells) * Len(muts)
             IN  Return(gs_value(AbsDiffSum(M_grnd, M_sol, Len(muts)), size))

\* --------------------------------------------------------------------- ad

\* The (i, j) the two loops visit: i in range(m), j in range(i, m).
LoopPairs(m) == {p \in (1..m) \X (1..m) : p[1] <= p[2]}

\* The test that counts (i, j) in n_adpairs.
ad_pair(M_grnd, i, j) ==
    Cap(M_grnd, i, j) > 0 /\ ColSum(M_grnd, i) # ColSum(M_grnd, j)

\* with <= replaced by < in the comparisons of the candidate's sums
ad_error_strict(M_grnd, M_sol, i, j) ==
    \/ Cap(M_sol, i, j) = 0
    \/ /\ ColSum(M_grnd, j) > ColSum(M_grnd, i)
       /\ ColSum(M_sol, j) < ColSum(M_sol, i)
    \/ /\ ColSum(M_grnd, i) > ColSum(M_grnd, j)
       /\ ColSum(M_sol, i) < ColSum(M_sol, j)

\* The tests under which a counted (i, j) is appended to error_pairs.
ad_error(M_grnd, M_sol, i, j) ==
    \/ Cap(M_sol, i, j) = 0
    \/ /\ ColSum(M_grnd, j) > ColSum(M_grnd, i)
       /\ ColSum(M_sol, j) <= ColSum(M_sol, i)
    \/ /\ ColSum(M_grnd, i) > ColSum(M_grnd, j)
       /\ ColSum(M_sol, i) <= ColSum(M_sol, j)

\* a guard that answers 1 when no pair was counted
ad_value_guarded(n_errors, n_adpairs) ==
    IF n_adpairs = 0 THEN Return(Frac(1, 1))
    ELSE Return(OneMinus(n_errors, n_adpairs))

\* 1 - len(error_pairs) / n_adpairs, Python's division of two ints.
ad_value(n_errors, n_adpairs) ==
    IF n_adpairs = 0 THEN Raise("ZeroDivisionError")
    ELSE Return(OneMinus(n_errors, n_adpairs))

ad(grnd, sol) ==
    LET inter == intersect1d(grnd.columns, sol.columns)
    IN  IF Len(inter) = 0
        THEN logg_error("No common mutations found between two trees!")
        ELSE LET M_grnd == values(getitem(grnd, inter))
                 M_sol == values(getitem(sol, inter))
                 adpairs == {p \in LoopPairs(Len(inter)) :
                                ad_pair(M_grnd, p[1], p[2])}
                 error_pairs == {p \in adpairs :
                                    ad_error(M_grnd, M_sol, p[1], p[2])}
             IN  ad_value(Cardinality(error_pairs), Cardinality(adpairs))

\* --------------------------------------------------------------------- dl

\* the disjointness test alone, the two sums left unchecked
dl_pair_disjoint_only(M, i, j) == Cap(M, i, j) = 0

\* The test dl applies to (i, j), in the ground truth and in the candidate.
dl_pair(M, i, j) ==
    Cap(M, i, j) = 0 /\ ColSum(M, i) # 0 /\ ColSum(M, j) # 0

\* n_dlpairs2 / n_dlpairs1, Python's division of two ints.
dl_value(n_dlpairs2, n_dlpairs1) ==
    IF n_dlpairs1 = 0 THEN Raise("ZeroDivisionError")
    ELSE Return(Frac(n_dlpairs2, n_dlpairs1))

\* n_dlpairs2 counted over every (i, j), outside the branch of n_dlpairs1
dl_unnested(grnd, sol) ==
    LET inter == intersect1d(grnd.columns, sol.columns)
    IN  IF Len(inter) = 0
        THEN logg_error("No common mutations found between two trees!")
        ELSE LET M_grnd == values(getitem(grnd, inter))
                 M_sol == values(getitem(sol, inter))
                 dlpairs1 == {p \in LoopPairs(Len(inter)) :
                                 dl_pair(M_grnd, p[1], p[2])}
                 dlpairs2 == {p \in LoopPairs(Len(inter)) :
                                 dl_pair(M_sol, p[1], p[2])}
             IN  dl_value(Cardinality(dlpairs2), Cardinality(dlpairs1))

dl(grnd, sol) ==
    LET inter == intersect1d(grnd.columns, sol.columns)
    IN  IF Len(inter) = 0
        THEN logg_error("No common mutations found between two trees!")
        ELSE LET M_grnd == values(getitem(grnd, inter))
                 M_sol == values(getitem(sol, inter))
                 dlpairs1 == {p \in LoopPairs(Len(inter)) :
                                 dl_pair(M_grnd, p[1], p[2])}
                 dlpairs2 == {p \in dlpairs1 : dl_pair(M_sol, p[1], p[2])}
             IN  dl_value(Cardinality(dlpairs2), Cardinality(dlpairs1))

\* --------------------------------------------------------------------- cc

cc(grnd, sol) ==
    LET inter == intersect1d(grnd.columns, sol.columns)
    IN  IF Len(inter) = 0
        THEN logg_error("No common mutations found between two trees!")
        ELSE Return(None)

\* ------------------------------------------------------------------- mltd

\* label.replace(":", "_").replace("=", "_")
str_replace(l) == IF l % 3 = 2 THEN l + 1 ELSE l

\* df.columns = df.columns.str.replace(":", "_").str.replace("=", "_")
rename_columns(df) ==
    DataFrame(df.index, [k \in DOMAIN df.columns |-> str_replace(df.columns[k])],
              df.values)

\* scp.ul.to_tree(df) fails loudly unless df is certified conflict-free by
\* the conflict-free check.
to_tree_fails(df) == ~is_conflict_free_gusfield(df)

\* What run_mltd hands back when the tool produced a result.
ToolResult ==
    [distance |-> "distance", similarity |-> "similarity",
     normalized_similarity |-> "normalized_similarity"]

\* run_mltd raised instead of handing anything back.
ToolRaises == [py |-> "raises"]

\* The two files mltd has the serializer write, in the order it writes them.
InFiles == <<"grnd.in", "sol.in">>

\* The steps of mltd after tmpdirsys, the last one reached first:
\* "inter" (no common mutation), "to_tree" (a tree could not be built),
\* "write" (a file could not be written), "run" (run_mltd raised), "end"
\* (run_mltd handed `result` back).  `written` is the number of files the
\* serializer managed to write.
mltd_exit(grnd, sol, written, result) ==
    LET inter == intersect1d(grnd.columns, sol.columns)
    IN  IF Len(inter) = 0 THEN "inter"
        ELSE IF to_tree_fails(getitem(grnd, inter))
                  \/ to_tree_fails(getitem(sol, inter)) THEN "to_tree"
        ELSE IF written < Len(InFiles) THEN "write"
        ELSE IF result = ToolRaises THEN "run"
        ELSE "end"

\* with the test of `result is None` left out
mltd_unchecked(grnd, sol, written, result) ==
    LET exit == mltd_exit(grnd, sol, written, result)
    IN  CASE exit = "inter" ->
                 logg_error("No common mutations found between two trees!")
          [] exit = "to_tree" -> logg_error("The input is not conflict-free!")
          [] exit = "write" -> Raise("OSError")
          [] exit = "run" -> Raise("Exception")
          [] OTHER -> Return(result)

\* mltd once the columns are renamed: how the call ends.
mltd(grnd, sol, written, result) ==
    LET exit == mltd_exit(grnd, sol, written, result)
    IN  CASE exit = "inter" ->
                 logg_error("No common mutations found between two trees!")
          [] exit = "to_tree" -> logg_error("The input is not conflict-free!")
          [] exit = "write" -> Raise("OSError")
          [] exit = "run" -> Raise("Exception")
          [] result = None -> logg_error("MLTD core failed!")
          [] OTHER -> Return(result)

\* What mltd leaves outside its return value: tmpdir.cleanup() is reached on
\* the path through run_mltd's return alone.
mltd_env(e, grnd, sol, written, result) ==
    LET exit == mltd_exit(grnd, sol, written, result)
        made == [e EXCEPT !.tmpdir = "exists"]
    IN  CASE exit \in {"inter", "to_tree"} -> made
          [] exit = "write" ->
                 [made EXCEPT !.files = {InFiles[k] : k \in 1..written}]
          [] exit = "run" ->
                 [made EXCEPT !.files = Range(InFiles), !.runs = e.runs + 1]
          [] OTHER ->
                 [made EXCEPT !.tmpdir = "removed", !.files = {},
                              !.runs = e.runs + 1, !.tool = <<result>>]

\* ------------------------------------------------------------------ tpted

\* tree.graph["become_germline"]: the mutations no cell carries.
become_germline(df) ==
    Sorted({df.columns[j] : j \in {k \in DOMAIN df.columns :
                \A i \in DOMAIN df.values : df.values[i][k] = Zero}})

\* 1 - ed / (2 * (len(inter) + 1))
tpted_value(ed, n_inter) == OneMinus(ed, 2 * (n_inter + 1))

\* tpted; `ed` is the edit distance the collaborator computes.
tpted(grnd, sol, ed) ==
    LET inter == intersect1d(grnd.columns, sol.columns)
    IN  IF Len(inter) = 0
        THEN logg_error("No common mutations found between two trees!")
        ELSE IF to_tree_fails(getitem(grnd, inter))
                  \/ to_tree_fails(getitem(sol, inter))
        THEN logg_error("The input is not conflict-free!")
        ELSE LET inter2 == setdiff1d(inter,
                               union1d(become_germline(getitem(grnd, inter)),
                                       become_germline(getitem(sol, inter))))
             IN  IF to_tree_fails(getitem(grnd, inter2))
                     \/ to_tree_fails(getitem(sol, inter2))
                 THEN logg_error("The input is not conflict-free!")
                 ELSE Return(tpted_value(ed, Len(inter2)))

\* ------------------------------------------------------------- actions

\* The caller calls is_conflict_free_gusfield(df_in).
Call_is_conflict_free_gusfield ==
    /\ pc = "ready"
    /\ ret' = Return(is_conflict_free_gusfield(df_in))
    /\ ret0' = IF ret0 = NoCall THEN ret' ELSE ret0
    /\ fn' = "is_conflict_free_gusfield"
    /\ pc' = "done"
    /\ UNCHANGED <<df_in, tree, df_grnd, df_sol, arg_grnd, arg_sol, permuted, env,
                   fout>>

\* The caller calls is_conflict_free(df_in).
Call_is_conflict_free ==
    /\ pc = "ready"
    /\ ret' = Return(is_conflict_free(df_in))
    /\ ret0' = IF ret0 = NoCall THEN ret' ELSE ret0
    /\ fn' = "is_conflict_free"
    /\ pc' = "done"
    /\ UNCHANGED <<df_in, tree, df_grnd, df_sol, arg_grnd, arg_sol, permuted, env,
                   fout>>

Swap(s, a, b) == [s EXCEPT ![a] = s[b], ![b] = s[a]]

\* The caller exchanges two neighbouring rows of its matrix, to call again
\* (every permutation is a chain of such exchanges).  The labels stay in
\* place: the check reads df_in.values alone.
PermuteRows ==
    /\ pc = "done"
    /\ \E a, b \in 1..Len(df_in.index) :
        /\ b = a + 1
        /\ df_in' = DataFrame(df_in.index, df_in.columns,
                              Swap(df_in.values, a, b))
    /\ pc' = "ready"
    /\ permuted' = TRUE
    /\ UNCHANGED <<tree, df_grnd, df_sol, arg_grnd, arg_sol, fn, ret, ret0, env,
                   fout>>

\* The caller exchanges two neighbouring columns of its matrix, to call again.
PermuteColumns ==
    /\ pc = "done"
    /\ \E a, b \in 1..Len(df_in.columns) :
        /\ b = a + 1
        /\ df_in' = DataFrame(df_in.index, df_in.columns,
                              [i \in DOMAIN df_in.values |->
                                  Swap(df_in.values[i], a, b)])
    /\ pc' = "ready"
    /\ permuted' = TRUE
    /\ UNCHANGED <<tree, df_grnd, df_sol, arg_grnd, arg_sol, fn, ret, ret0, env,
                   fout>>

\* The shapes (rows, columns) of the matrices of at most k entries.
Shapes(k) == {sh \in (0..k) \X (0..k) : sh[1] * sh[2] <= k}

NoFrame == DataFrame(<<>>, <<>>, <<>>)
NoTree == [parent |-> <<>>, edge |-> <<>>, node |-> <<>>]

\* Nothing called yet: no temporary directory, the tool not run, no edit
\* distance computed.
NoEnv ==
    [tmpdir |-> "none", files |-> {}, runs |-> 0, tool |-> <<>>, ed |-> <<>>]

\* What every specification starts from, its inputs apart.
Start ==
    /\ pc = "ready"
    /\ fn = "none"
    /\ ret = NoCall
    /\ ret0 = NoCall
    /\ permuted = FALSE
    /\ arg_grnd = NoFrame
    /\ arg_sol = NoFrame
    /\ env = NoEnv
    /\ fout = <<>>

\* The caller holds a 0/1 matrix of at most MaxEntries entries.
InitCF ==
    /\ \E sh \in Shapes(MaxEntries) :
          \E v \in Values(sh[1], sh[2], {Zero, One}) :
              df_in = DataFrame(Iota(sh[1]), Iota(sh[2]), v)
    /\ tree = NoTree
    /\ df_grnd = NoFrame
    /\ df_sol = NoFrame
    /\ Start

\* The caller holds a matrix whose entries may be 0, 1, the missing-data
\* value 3 or the non-integer 0.5.
InitRaw ==
    /\ \E sh \in Shapes(MaxRawEntries) :
          \E v \in Values(sh[1], sh[2], {Zero, One, NA, Half}) :
              df_in = DataFrame(Iota(sh[1]), Iota(sh[2]), v)
    /\ tree = NoTree
    /\ df_grnd = NoFrame
    /\ df_sol = NoFrame
    /\ Start

\* ------------------------------------------------------ mutation trees

\* A rooted mutation tree: node 0 is the germline root, parent[k] is the
\* parent of node k, edge[u] is the node whose incoming edge carries
\* mutation u (so the edge labels are pairwise disjoint), node[c] is the
\* node cell c is attached to.
MutationTree(parent, edge, node) ==
    [parent |-> parent, edge |-> edge, node |-> node]

\* The nodes on the way from the root to node k, the root left out.
RECURSIVE PathTo(_, _)
PathTo(t, k) == IF k = 0 THEN {} ELSE {k} \cup PathTo(t, t.parent[k])

\* The root-to-node profile of the node cell c is attached to.
Profile(t, c) == {u \in DOMAIN t.edge : t.edge[u] \in PathTo(t, t.node[c])}

\* The matrix whose rows are the profiles of the cells.
ProfileMatrix(t) ==
    DataFrame(Iota(Len(t.node)), Iota(Len(t.edge)),
              [c \in DOMAIN t.node |->
                  [u \in DOMAIN t.edge |->
                      IF u \in Profile(t, c) THEN One ELSE Zero]])

\* The caller holds the matrix read off a mutation tree with at least one
\* cell and one mutation, every edge carrying at least one mutation.
InitTree ==
    /\ \E k \in 1..MaxNodes, m \in 1..MaxTreeMuts, n \in 1..MaxTreeCells :
          \E parent \in [1..k -> 0..(k - 1)] :
          \E edge \in [1..m -> 1..k] :
          \E node \in [1..n -> 0..k] :
              /\ \A j \in 1..k : parent[j] < j
              /\ \A j \in 1..k : \E u \in 1..m : edge[u] = j
              /\ tree = MutationTree(parent, edge, node)
    /\ df_in = ProfileMatrix(tree)
    /\ df_grnd = NoFrame
    /\ df_sol = NoFrame
    /\ Start

\* --------------------------------------- mltd._convert_tree_to_mtld_input

\* The nodes of t other than the root, in ascending order: one edge
\* (parent, node, label) of the tree each.
Nodes(t) == [k \in DOMAIN t.parent |-> k]

\* tree.neighbors(u): the children of u.
Children(t, u) == {k \in DOMAIN t.parent : t.parent[k] = u}

\* tree.in_degree(u) == 0
IsRoot(t, u) == \A k \in {0} \cup DOMAIN t.parent : u \notin Children(t, k)

\* l.split(tree.graph["splitter_mut"]) for the label of the edge into v
Muts(t, v) == {u \in DOMAIN t.edge : t.edge[u] = v}

\* The lines of the first loop for the edges into the nodes of `rest`:
\* f"{u}=\n" when u has no incoming edge, then f"{v}={','.join(muts)}\n".
RECURSIVE EdgeLines(_, _)
EdgeLines(t, rest) ==
    IF rest = <<>> THEN <<>>
    ELSE LET v == Head(rest)
             u == t.parent[v]
         IN  (IF IsRoot(t, u) THEN <<[kind |-> "=", node |-> u, items |-> {}]>>
              ELSE <<>>)
             \o <<[kind |-> "=", node |-> v, items |-> Muts(t, v)]>>
             \o EdgeLines(t, Tail(rest))

\* The lines of the second loop: f"{u}:{','.join(children)}\n" for every
\* node of `rest` that has children.
RECURSIVE NodeLines(_, _)
NodeLines(t, rest) ==
    IF rest = <<>> THEN <<>>
    ELSE LET u == Head(rest)
         IN  (IF Children(t, u) = {} THEN <<>>
              ELSE <<[kind |-> ":", node |-> u, items |-> Children(t, u)]>>)
             \o NodeLines(t, Tail(rest))

\* The file _convert_tree_to_mtld_input(tree, file) writes.
convert_tree_to_mtld_input(t) ==
    EdgeLines(t, Nodes(t)) \o NodeLines(t, <<0>> \o Nodes(t))

\* The serializer of mltd is run on the tree.
Call_convert_tree_to_mtld_input ==
    /\ pc = "ready"
    /\ fout' = convert_tree_to_mtld_input(tree)
    /\ ret' = Return(None)
    /\ ret0' = IF ret0 = NoCall THEN ret' ELSE ret0
    /\ fn' = "_convert_tree_to_mtld_input"
    /\ pc' = "done"
    /\ UNCHANGED <<df_in, tree, df_grnd, df_sol, arg_grnd, arg_sol, permuted, env>>

\* A call of a score ends: `f` was called and ended as `r`.
Ends(f, r) ==
    /\ pc = "ready"
    /\ ret' = r
    /\ ret0' = IF ret0 = NoCall THEN r ELSE ret0
    /\ fn' = f
    /\ pc' = "done"
    /\ arg_grnd' = df_grnd
    /\ arg_sol' = df_sol
    /\ UNCHANGED <<df_in, tree, permuted, fout>>

Call_gs ==
    /\ Ends("gs", gs(df_grnd, df_sol))
    /\ UNCHANGED <<df_grnd, df_sol, env>>

Call_ad ==
    /\ Ends("ad", ad(df_grnd, df_sol))
    /\ UNCHANGED <<df_grnd, df_sol, env>>

Call_dl ==
    /\ Ends("dl", dl(df_grnd, df_sol))
    /\ UNCHANGED <<df_grnd, df_sol, env>>

Call_cc ==
    /\ Ends("cc", cc(df_grnd, df_sol))
    /\ UNCHANGED <<df_grnd, df_sol, env>>

\* mltd renames the columns of the caller's frames in place, then goes on.
Call_mltd ==
    /\ df_grnd' = rename_columns(df_grnd)
    /\ df_sol' = rename_columns(df_sol)
    /\ \E written \in 0..Len(InFiles) :
       \E result \in {None, ToolResult, ToolRaises} :
          /\ Ends("mltd", mltd(df_grnd', df_sol', written, result))
          /\ env' = mltd_env(env, df_grnd', df_sol', written, result)

\* tpted; the edit distance is computed on the paths that reach apted.
Call_tpted ==
    /\ \E ed \in 0..MaxEd :
          /\ Ends("tpted", tpted(df_grnd, df_sol, ed))
          /\ env' = IF tpted(df_grnd, df_sol, ed).kind = "return"
                    THEN [env EXCEPT !.ed = <<ed>>]
                    ELSE env
    /\ UNCHANGED <<df_grnd, df_sol>>

\* The caller holds two 0/1 matrices over the same cells and the same
\* mutations, of at most MaxScoreEntries entries each.
InitScore ==
    /\ \E sh \in Shapes(MaxScoreEntries) :
          \E vg, vs \in Values(sh[1], sh[2], {Zero, One}) :
              /\ df_grnd = DataFrame(Iota(sh[1]), Iota(sh[2]), vg)
              /\ df_sol = DataFrame(Iota(sh[1]), Iota(sh[2]), vs)
    /\ df_in = NoFrame
    /\ tree = NoTree
    /\ Start

\* The caller holds two 0/1 matrices whose cells and mutations are any
\* labels up to L, at most E entries each.
InitLabelled(L, E) ==
    /\ \E cg, mg, cs, ms \in SUBSET (1..L) :
          /\ Cardinality(cg) * Cardinality(mg) <= E
          /\ Cardinality(cs) * Cardinality(ms) <= E
          /\ \E vg \in Values(Cardinality(cg), Cardinality(mg), {Zero, One}) :
             \E vs \in Values(Cardinality(cs), Cardinality(ms), {Zero, One}) :
                /\ df_grnd = DataFrame(Sorted(cg), Sorted(mg), vg)
                /\ df_sol = DataFrame(Sorted(cs), Sorted(ms), vs)
    /\ df_in = NoFrame
    /\ tree = NoTree
    /\ Start

\* The caller holds two 0/1 matrices over cells 1..n and 1..n', their
\* mutations any labels up to MaxPermLabel, at most MaxPermEntries entries
\* each.
InitPerm ==
    /\ \E ng, ns \in 0..MaxPermLabel :
       \E mg, ms \in SUBSET (1..MaxPermLabel) :
          /\ ng * Cardinality(mg) <= MaxPermEntries
          /\ ns * Cardinality(ms) <= MaxPermEntries
          /\ \E vg \in Values(ng, Cardinality(mg), {Zero, One}) :
             \E vs \in Values(ns, Cardinality(ms), {Zero, One}) :
                /\ df_grnd = DataFrame(Iota(ng), Sorted(mg), vg)
                /\ df_sol = DataFrame(Iota(ns), Sorted(ms), vs)
    /\ df_in = NoFrame
    /\ tree = NoTree
    /\ Start

InitLabels == InitLabelled(MaxLabel, MaxLabelEntries)

\* The shape of the matrices of InitWide: cells x mutations.
WideShape == <<3, 3>>

\* The number of entries of a matrix that are 1.
Ones(v) ==
    Cardinality({p \in (DOMAIN v) \X (1..WideShape[2]) : v[p[1]][p[2]] = One})

\* The caller holds two 0/1 matrices over three cells and three mutations,
\* each with at most MaxOnes entries that are 1.
InitWide ==
    /\ \E vg, vs \in Values(WideShape[1], WideShape[2], {Zero, One}) :
          /\ Ones(vg) <= MaxOnes
          /\ Ones(vs) <= MaxOnes
          /\ df_grnd = DataFrame(Iota(WideShape[1]), Iota(WideShape[2]), vg)
          /\ df_sol = DataFrame(Iota(WideShape[1]), Iota(WideShape[2]), vs)
    /\ df_in = NoFrame
    /\ tree = NoTree
    /\ Start

NextMetrics ==
    \/ Call_gs
    \/ Call_ad
    \/ Call_dl

NextScore ==
    \/ Call_gs
    \/ Call_ad
    \/ Call_dl
    \/ Call_cc
    \/ Call_mltd
    \/ Call_tpted

NextCF ==
    \/ Call_is_conflict_free_gusfield
    \/ PermuteRows
    \/ PermuteColumns

NextBoth ==
    \/ Call_is_conflict_free
    \/ Call_is_conflict_free_gusfield

\* The caller holds a 0/1 matrix of at most MaxBothEntries entries.
InitBoth ==
    /\ \E sh \in Shapes(MaxBothEntries) :
          \E v \in Values(sh[1], sh[2], {Zero, One}) :
              df_in = DataFrame(Iota(sh[1]), Iota(sh[2]), v)
    /\ tree = NoTree
    /\ df_grnd = NoFrame
    /\ df_sol = NoFrame
    /\ Start

\* Either check is called on a 0/1 matrix or on a matrix of raw values.
SpecBoth == (InitBoth \/ InitRaw) /\ [][NextBoth]_vars

SpecCF == InitCF /\ [][NextCF]_vars

SpecRaw == InitRaw /\ [][NextCF]_vars

SpecTree == InitTree /\ [][Call_is_conflict_free_gusfield]_vars

SpecScore == InitScore /\ [][NextMetrics]_vars

\* The caller holds two 0/1 matrices over the same cells and mutations, of
\* at most MaxTptedEntries entries each.
InitTpted ==
    /\ \E sh \in Shapes(MaxTptedEntries) :
          \E vg, vs \in Values(sh[1], sh[2], {Zero, One}) :
              /\ df_grnd = DataFrame(Iota(sh[1]), Iota(sh[2]), vg)
              /\ df_sol = DataFrame(Iota(sh[1]), Iota(sh[2]), vs)
    /\ df_in = NoFrame
    /\ tree = NoTree
    /\ Start

SpecSerial == InitTree /\ [][Call_convert_tree_to_mtld_input]_vars

SpecMltd == InitTpted /\ [][Call_mltd]_vars

SpecTpted == InitTpted /\ [][Call_tpted]_vars

SpecWide == InitWide /\ [][NextMetrics]_vars

SpecPerm == InitPerm /\ [][NextMetrics]_vars

SpecLabels == InitLabels /\ [][NextScore]_vars

\* ---------------------------------------------- claims: conflict-free check

Rows(df) == 1..Len(df.index)
Cols(df) == 1..Len(df.columns)

IsBinary(df) ==
    \A i \in Rows(df) : \A j \in Cols(df) : df.values[i][j] \in {Zero, One}

\* Columns p and q hold (1,1) in some row, (1,0) in some row and (0,1) in
\* some row.
ThreePattern(df, p, q) ==
    /\ \E r \in Rows(df) : df.values[r][p] = One /\ df.values[r][q] = One
    /\ \E r \in Rows(df) : df.values[r][p] = One /\ df.values[r][q] = Zero
    /\ \E r \in Rows(df) : df.values[r][p] = Zero /\ df.values[r][q] = One

HasConflict(df) == \E p, q \in Cols(df) : ThreePattern(df, p, q)

GusfieldDone == pc = "done" /\ fn = "is_conflict_free_gusfield"

\* C1: a 0/1 matrix with two columns that hold (1,1), (1,0) and (0,1) in
\* three of its rows is rejected: is_conflict_free_gusfield returns False.
C1_ConflictRejected ==
    (GusfieldDone /\ IsBinary(df_in) /\ HasConflict(df_in))
        => ret = Return(FALSE)

\* The 3 x 2 matrix [[1,1],[1,0],[0,1]] has been checked and rejected.
C1_Witness ==
    /\ GusfieldDone
    /\ df_in.values = <<<<One, One>>, <<One, Zero>>, <<Zero, One>>>>
    /\ ret = Return(FALSE)

\* C2: the matrix of the root-to-node profiles of the cells of a mutation
\* tree is accepted: is_conflict_free_gusfield returns True.
C2_TreeMatrixAccepted ==
    (GusfieldDone /\ tree # NoTree) => ret = Return(TRUE)

\* C3: a matrix with no rows, with no columns or with every entry 0 is
\* accepted: is_conflict_free_gusfield returns True.
C3_EmptyOrZeroAccepted ==
    (GusfieldDone
        /\ \A i \in Rows(df_in) : \A j \in Cols(df_in) :
               df_in.values[i][j] = Zero)
        => ret = Return(TRUE)

\* C4: whatever permutation of its rows and of its columns the caller
\* applies to the matrix, is_conflict_free_gusfield returns what it returned
\* on the matrix it started from.
C4_PermutationInvariant ==
    GusfieldDone => ret = ret0

\* A matrix of at least three rows and three columns has been permuted and
\* checked again, and was accepted both times.
C4_Witness ==
    /\ GusfieldDone
    /\ permuted
    /\ Len(df_in.index) >= 3
    /\ Len(df_in.columns) >= 3
    /\ ret = Return(TRUE)
    /\ ret0 = Return(TRUE)

\* C5: a matrix with an entry other than 0 and 1 (the missing-data value 3,
\* a non-integer) is rejected: is_conflict_free_gusfield returns False.
C5_NonBinaryRejected ==
    (GusfieldDone /\ ~IsBinary(df_in)) => ret = Return(FALSE)

\* ------------------------------------------------------- claims: the scores

\* The cells that carry mutation u in df.
Support(df, u) ==
    {df.index[r] : r \in {k \in Rows(df) :
        \E j \in Cols(df) : df.columns[j] = u /\ df.values[k][j] = One}}

\* The mutations the two matrices share, and the unordered pairs of them.
SharedMuts(g, s) == Range(g.columns) \cap Range(s.columns)
SharedCells(g, s) == Range(g.index) \cap Range(s.index)
MutPairs(g, s) == {P \in SUBSET SharedMuts(g, s) : Cardinality(P) = 2}

\* The pairs whose supports in df intersect and differ in size.
ADPairs(df, pairs) ==
    {P \in pairs :
        /\ \E c \in UNION {Support(df, u) : u \in P} :
               \A u \in P : c \in Support(df, u)
        /\ \E u, w \in P :
               Cardinality(Support(df, u)) # Cardinality(Support(df, w))}

\* The pairs whose supports in df are nonempty and disjoint.
DLPairs(df, pairs) ==
    {P \in pairs :
        /\ \A u \in P : Support(df, u) # {}
        /\ \A u, w \in P : u # w => Support(df, u) \cap Support(df, w) = {}}

\* The ancestor-descendant pairs of g the candidate s violates: its supports
\* do not intersect, or the mutation with the larger support in g has a
\* support smaller than or equal to the other's in s.
ADViolated(g, s, pairs) ==
    {P \in ADPairs(g, pairs) :
        \/ \E u, w \in P : u # w /\ Support(s, u) \cap Support(s, w) = {}
        \/ \E u, w \in P :
              /\ Cardinality(Support(g, u)) > Cardinality(Support(g, w))
              /\ Cardinality(Support(s, u)) <= Cardinality(Support(s, w))}

\* Any two supports of df are disjoint or nested.
Laminar(df) ==
    \A u, w \in Range(df.columns) :
        \/ Support(df, u) \cap Support(df, w) = {}
        \/ Support(df, u) \subseteq Support(df, w)
        \/ Support(df, w) \subseteq Support(df, u)

\* One support of df strictly contains another (an ancestor-descendant pair).
HasStrictSuperset(df) ==
    \E u, w \in Range(df.columns) :
        Support(df, w) # {} /\ Support(df, w) \subseteq Support(df, u)
            /\ Support(df, u) # Support(df, w)

ScoreDone(f) == pc = "done" /\ fn = f

SelfScore == arg_sol = arg_grnd /\ IsBinary(arg_grnd) /\ Laminar(arg_grnd)

IsOne(r) == r = Return(Frac(1, 1))

\* C6 as stated: for every conflict-free 0/1 matrix M, gs(M, M) = 1, and
\* ad(M, M) = 1 when M has an ancestor-descendant pair, dl(M, M) = 1 when M
\* has a different-lineage pair.
C6_SelfScoreIsOne ==
    SelfScore =>
        /\ ScoreDone("gs") => IsOne(ret)
        /\ (ScoreDone("ad") /\ HasStrictSuperset(arg_grnd)) => IsOne(ret)
        /\ (ScoreDone("dl")
              /\ DLPairs(arg_grnd, MutPairs(arg_grnd, arg_grnd)) # {})
             => IsOne(ret)

\* C6 amended: for every conflict-free 0/1 matrix M with at least one cell
\* and one mutation, gs(M, M) = 1; ad(M, M) = 1 when M has an
\* ancestor-descendant pair and dl(M, M) = 1 when M has a different-lineage
\* pair.
C6_SelfScoreIsOneNonEmpty ==
    SelfScore =>
        /\ (ScoreDone("gs") /\ arg_grnd.index # <<>> /\ arg_grnd.columns # <<>>)
             => IsOne(ret)
        /\ (ScoreDone("ad") /\ HasStrictSuperset(arg_grnd)) => IsOne(ret)
        /\ (ScoreDone("dl")
              /\ DLPairs(arg_grnd, MutPairs(arg_grnd, arg_grnd)) # {})
             => IsOne(ret)

\* ad has scored a matrix with an ancestor-descendant pair and a
\* different-lineage pair against itself, and answered 1.
C6_Witness ==
    /\ ScoreDone("ad")
    /\ SelfScore
    /\ HasStrictSuperset(arg_grnd)
    /\ DLPairs(arg_grnd, MutPairs(arg_grnd, arg_grnd)) # {}
    /\ IsOne(ret)

\* The rows and the columns of df rearranged by the permutations rp and cp,
\* every label moving with its row or column.
Permuted(df, rp, cp) ==
    DataFrame([i \in DOMAIN rp |-> df.index[rp[i]]],
              [j \in DOMAIN cp |-> df.columns[cp[j]]],
              [i \in DOMAIN rp |-> [j \in DOMAIN cp |-> df.values[rp[i]][cp[j]]]])

Perms(n) == {p \in [1..n -> 1..n] : \A a, b \in 1..n : p[a] = p[b] => a = b}

\* The mutations of df renamed by f.
Renamed(df, f) ==
    DataFrame(df.index, [j \in DOMAIN df.columns |-> f[df.columns[j]]], df.values)

\* The injective renamings of the mutations 1..MaxPermLabel.
Renamings ==
    {f \in [1..MaxPermLabel -> 1..MaxPermLabel] :
        \A a, b \in 1..MaxPermLabel : f[a] = f[b] => a = b}

ScoreOf(f, g, s) ==
    CASE f = "gs" -> gs(g, s)
      [] f = "ad" -> ad(g, s)
      [] f = "dl" -> dl(g, s)

\* C7: gs, ad and dl end the same way when the rows and the columns of the
\* ground-truth matrix, or of the candidate matrix, are permuted, and when
\* the mutations are renamed by one injective renaming in both matrices.
C7_OrderIndependent ==
    (pc = "done" /\ fn \in {"gs", "ad", "dl"}) =>
        /\ \A rp \in Perms(Len(arg_grnd.index)) :
           \A cp \in Perms(Len(arg_grnd.columns)) :
               ScoreOf(fn, Permuted(arg_grnd, rp, cp), arg_sol) = ret
        /\ \A rp \in Perms(Len(arg_sol.index)) :
           \A cp \in Perms(Len(arg_sol.columns)) :
               ScoreOf(fn, arg_grnd, Permuted(arg_sol, rp, cp)) = ret
        /\ \A f \in Renamings :
               ScoreOf(fn, Renamed(arg_grnd, f), Renamed(arg_sol, f)) = ret

\* ad has scored two 2 x 2 matrices with an ancestor-descendant pair that
\* the candidate violates.
C7_Witness ==
    /\ ScoreDone("ad")
    /\ Len(arg_grnd.index) = 2 /\ Len(arg_grnd.columns) = 2
    /\ Len(arg_sol.index) = 2 /\ Len(arg_sol.columns) = 2
    /\ ret = Return(Frac(0, 1))

\* C8: when the two matrices share no mutation (for gs also: no cell),
\* gs, ad, dl, cc, mltd and tpted abort and return nothing.
C8_EmptyIntersectionAborts ==
    (pc = "done" /\ fn \in {"gs", "ad", "dl", "cc", "mltd", "tpted"}
        /\ \/ SharedMuts(arg_grnd, arg_sol) = {}
           \/ fn = "gs" /\ SharedCells(arg_grnd, arg_sol) = {})
        => ret.kind = "abort"

\* C9: when the ground truth has no ancestor-descendant pair among the
\* shared mutations ad returns no number, and when it has no
\* different-lineage pair dl returns no number: where mutations are shared
\* the call ends in ZeroDivisionError.
C9_NoPairsNoScore ==
    /\ (ScoreDone("ad") /\ ADPairs(arg_grnd, MutPairs(arg_grnd, arg_sol)) = {})
         => /\ ret.kind # "return"
            /\ SharedMuts(arg_grnd, arg_sol) # {}
                 => ret = Raise("ZeroDivisionError")
    /\ (ScoreDone("dl") /\ DLPairs(arg_grnd, MutPairs(arg_grnd, arg_sol)) = {})
         => /\ ret.kind # "return"
            /\ SharedMuts(arg_grnd, arg_sol) # {}
                 => ret = Raise("ZeroDivisionError")

\* ad was called on matrices of two cells and two mutations or more whose
\* ground truth has different-lineage pairs only, and raised.
C9_Witness ==
    /\ ScoreDone("ad")
    /\ Len(arg_grnd.index) >= 2 /\ Len(arg_grnd.columns) >= 2
    /\ DLPairs(arg_grnd, MutPairs(arg_grnd, arg_sol)) # {}
    /\ ADPairs(arg_grnd, MutPairs(arg_grnd, arg_sol)) = {}
    /\ ret = Raise("ZeroDivisionError")

\* C10: ad returns 1 - V/T, T the number of unordered pairs of shared
\* mutations whose supports in the ground truth intersect and differ in
\* size, V the number of those the candidate violates.
C10_ADFormula ==
    (ScoreDone("ad") /\ ADPairs(arg_grnd, MutPairs(arg_grnd, arg_sol)) # {})
        => ret = Return(OneMinus(
                     Cardinality(ADViolated(arg_grnd, arg_sol,
                                            MutPairs(arg_grnd, arg_sol))),
                     Cardinality(ADPairs(arg_grnd,
                                         MutPairs(arg_grnd, arg_sol)))))

\* ad has counted two ancestor-descendant pairs, one of them violated.
C10_Witness ==
    /\ ScoreDone("ad")
    /\ Cardinality(ADPairs(arg_grnd, MutPairs(arg_grnd, arg_sol))) = 2
    /\ Cardinality(ADViolated(arg_grnd, arg_sol,
                              MutPairs(arg_grnd, arg_sol))) = 1
    /\ ret = Return(Frac(1, 2))


\* C11: dl returns P/T, T the number of unordered pairs of distinct shared
\* mutations whose supports in the ground truth are nonempty and disjoint,
\* P the number of those whose supports in the candidate are nonempty and
\* disjoint too.
C11_DLFormula ==
    (ScoreDone("dl") /\ DLPairs(arg_grnd, MutPairs(arg_grnd, arg_sol)) # {})
        => ret = Return(Frac(
                     Cardinality(DLPairs(arg_sol,
                         DLPairs(arg_grnd, MutPairs(arg_grnd, arg_sol)))),
                     Cardinality(DLPairs(arg_grnd,
                         MutPairs(arg_grnd, arg_sol)))))

\* dl has counted three different-lineage pairs, one of which the candidate
\* keeps.
C11_Witness ==
    /\ ScoreDone("dl")
    /\ Cardinality(DLPairs(arg_grnd, MutPairs(arg_grnd, arg_sol))) = 3
    /\ Cardinality(DLPairs(arg_sol,
           DLPairs(arg_grnd, MutPairs(arg_grnd, arg_sol)))) = 1
    /\ ret = Return(Frac(1, 3))

\* The float v lies in [0, 1].
InUnit(v) == v.den > 0 /\ 0 <= v.num /\ v.num <= v.den

\* C12: whenever gs, ad or dl returns a score for two 0/1 matrices, the
\* score lies in [0, 1].
C12_ScoreInUnit ==
    (pc = "done" /\ fn \in {"gs", "ad", "dl"} /\ ret.kind = "return"
        /\ IsBinary(arg_grnd) /\ IsBinary(arg_sol))
        => InUnit(ret.value)

\* gs has returned a score strictly between 0 and 1 for two matrices with
\* MaxOnes ones each, for which ad returns a score too.
C12_Witness ==
    /\ ScoreDone("gs")
    /\ Ones(arg_grnd.values) = MaxOnes /\ Ones(arg_sol.values) = MaxOnes
    /\ ret.kind = "return"
    /\ 0 < ret.value.num /\ ret.value.num < ret.value.den
    /\ ad(arg_grnd, arg_sol).kind = "return"

LinesOf(k, u) ==
    {i \in DOMAIN fout : fout[i].kind = k /\ fout[i].node = u}

SerializerDone == pc = "done" /\ fn = "_convert_tree_to_mtld_input"

\* C14: the file the serializer writes for a tree with an edge has exactly
\* one root declaration line, exactly one `child=mutation_list` line for
\* each non-root node, and exactly one `parent:child_list` line for each
\* node with children and none for a leaf.
C14_SerializerLines ==
    SerializerDone =>
        /\ Cardinality(LinesOf("=", 0)) = 1
        /\ \A v \in DOMAIN tree.parent : Cardinality(LinesOf("=", v)) = 1
        /\ \A u \in {0} \cup DOMAIN tree.parent :
              Cardinality(LinesOf(":", u)) =
                  IF Children(tree, u) = {} THEN 0 ELSE 1

\* C15: when control leaves mltd, on whatever path, the temporary directory
\* of the call and the files in it have been removed.
C15_TmpdirRemoved ==
    ScoreDone("mltd") => env.tmpdir = "removed" /\ env.files = {}

\* C16: no operation changes a matrix passed to it: after the call the
\* caller's matrices have the values, the cells and the mutations they had
\* before.
C16_InputsUnchanged ==
    (pc = "done" /\ fn \in {"gs", "ad", "dl", "cc", "mltd", "tpted"})
        => df_grnd = arg_grnd /\ df_sol = arg_sol

\* C17: mltd runs the tool at most once, and when the tool produced no
\* result the call ends in an error: None is never returned.
C17_ToolFailureIsFatal ==
    ScoreDone("mltd") =>
        /\ env.runs <= 1
        /\ (env.runs = 1 /\ env.tool # <<ToolResult>>) => ret.kind # "return"
        /\ ret # Return(None)

\* mltd ran the tool once, the tool handed None back, and the call aborted
\* with the directory removed.
C17_Witness ==
    /\ ScoreDone("mltd")
    /\ env.runs = 1
    /\ env.tool = <<None>>
    /\ ret = logg_error("MLTD core failed!")

\* C18: is_conflict_free_gusfield and is_conflict_free return the same
\* boolean for every input matrix.
C18_ChecksAgree ==
    (pc = "done" /\ fn \in {"is_conflict_free", "is_conflict_free_gusfield"})
        => /\ ret = Return(is_conflict_free(df_in))
           /\ ret = Return(is_conflict_free_gusfield(df_in))

\* is_conflict_free has accepted a matrix of three columns or more with two
\* equal columns and an all-zero column.
C18_Witness ==
    /\ pc = "done" /\ fn = "is_conflict_free"
    /\ Len(df_in.columns) >= 3
    /\ \E p, q \in Cols(df_in) :
          p # q /\ \A r \in Rows(df_in) : df_in.values[r][p] = df_in.values[r][q]
    /\ \E p \in Cols(df_in) : \A r \in Rows(df_in) : df_in.values[r][p] = Zero
    /\ ret = Return(TRUE)

====
